---------------------------- MODULE Spec2Model ----------------------------
(***************************************************************************)
(* parquet2hive: the packaging manifest (setup.py).                        *)
(*                                                                         *)
(* The manifest is one setup() call with literal keyword arguments.  The   *)
(* model holds the metadata that call produces and the effect of running   *)
(* the manifest with one of the commands build, install or test in an      *)
(* environment: the scripts and packages copied, and the requirement       *)
(* strings of the three requirement lists parsed and resolved one by one   *)
(* against versions offered by the package index.                          *)
(*                                                                         *)
(* Requirement strings are kept as sequences of characters so that the     *)
(* split into project name, extras and version specifier is computed.      *)
(***************************************************************************)
EXTENDS Integers, Sequences, FiniteSets, TLC

VARIABLES env, cmd, pc, metadata, other, binDir, libDir, buildDir,
          queue, candidate, site, eggs

vars == <<env, cmd, pc, metadata, other, binDir, libDir, buildDir,
          queue, candidate, site, eggs>>

(***************************************************************************)
(* Bounds of the model.  Versions offered by the index are triples         *)
(* major.minor.patch with components in 0..MaxMajor, 0..MaxMinor and       *)
(* 0..MaxPatch.                                                            *)
(***************************************************************************)
MaxMajor == 2
MaxMinor == 37
MaxPatch == 1

Versions == (0..MaxMajor) \X (0..MaxMinor) \X (0..MaxPatch)

(* No metadata yet (setup() not called), and no version on offer. *)
NoMetadata == [scripts |-> <<>>, packages |-> <<>>]
NoCandidate == <<>>

(***************************************************************************)
(* The environment a run happens in.  The manifest reads none of it.       *)
(***************************************************************************)
Platforms == {"linux", "win32"}
PyVersions == {2, 3}
Environments == [platform : Platforms, py : PyVersions]

Commands == {"build", "install", "test"}

(* Scripts and packages that may be present before the run. *)
OtherScripts == {"pip"}
OtherPackages == {"pip"}

(***************************************************************************)
(* The keyword arguments of the setup() call.                              *)
(***************************************************************************)
name == "parquet2hive"

(* The version of the release before. *)
version_previous == "0.2.15"

version == "0.2.16"
author == "Roberto Agostino Vitillo"
author_email == "rvitillo@mozilla.com"
description == "Hive import statement generator for Parquet datasets"
url == "https://github.com/mozilla/parquet2hive"
(* The package directory listed as a script too. *)
scripts_two == <<"parquet2hive", "parquet2hive_modules">>

scripts == <<"parquet2hive">>
packages == <<"parquet2hive_modules">>

(* functools32 left out of the requirements. *)
install_requires_short ==
  << <<"b","o","t","o","3">>,
     <<"t","h","r","i","f","t">>,
     <<"b","o","t","o",">","=","2",".","3","6",".","0">> >>

install_requires ==
  << <<"b","o","t","o","3">>,
     <<"f","u","n","c","t","o","o","l","s","3","2">>,
     <<"t","h","r","i","f","t">>,
     <<"b","o","t","o",">","=","2",".","3","6",".","0">> >>

setup_requires ==
  << <<"p","y","t","e","s","t","-","r","u","n","n","e","r">> >>

tests_require ==
  << <<"p","y","t","e","s","t">>,
     <<"m","o","t","o">>,
     <<"w","h","e","e","l","[","s","i","g","n","a","t","u","r","e","s","]">>,
     <<"j","s","o","n","s","c","h","e","m","a">> >>

(* A manifest that asks for functools32 on Python 2 only. *)
setup_by_python(e) ==
  [name |-> name,
   version |-> version,
   author |-> author,
   author_email |-> author_email,
   description |-> description,
   url |-> url,
   scripts |-> scripts,
   packages |-> packages,
   install_requires |-> IF e.py = 2 THEN install_requires
                        ELSE SelectSeq(install_requires,
                                       LAMBDA r : SubSeq(r, 1, 2) # <<"f", "u">>),
   setup_requires |-> setup_requires,
   tests_require |-> tests_require]

(* The metadata the setup() call hands to the distribution, in environment e. *)
setup(e) ==
  [name |-> name,
   version |-> version,
   author |-> author,
   author_email |-> author_email,
   description |-> description,
   url |-> url,
   scripts |-> scripts,
   packages |-> packages,
   install_requires |-> install_requires,
   setup_requires |-> setup_requires,
   tests_require |-> tests_require]

(***************************************************************************)
(* Requirement strings: name [extras] specifier,specifier...               *)
(***************************************************************************)
Digits == <<"0","1","2","3","4","5","6","7","8","9">>
Letters == {"a","b","c","d","e","f","g","h","i","j","k","l","m",
            "n","o","p","q","r","s","t","u","v","w","x","y","z"}
DigitChars == {Digits[i] : i \in 1..10}
NameChars == Letters \cup DigitChars \cup {"-", "_", "."}
OpChars == {"<", ">", "=", "!"}

Range(s) == {s[i] : i \in 1..Len(s)}

(* First position at or after i whose character is not in cs (Len(s)+1 if none). *)
RECURSIVE Scan(_, _, _)
Scan(s, i, cs) ==
  IF i > Len(s) \/ s[i] \notin cs THEN i ELSE Scan(s, i + 1, cs)

(* s cut at every occurrence of sep. *)
RECURSIVE Split(_, _)
Split(s, sep) ==
  IF sep \notin Range(s)
  THEN <<s>>
  ELSE LET k == CHOOSE i \in 1..Len(s) :
                  s[i] = sep /\ \A j \in 1..(i - 1) : s[j] # sep
       IN <<SubSeq(s, 1, k - 1)>> \o Split(SubSeq(s, k + 1, Len(s)), sep)

DigitVal(c) == (CHOOSE i \in 1..10 : Digits[i] = c) - 1

(* The digits added up, their place ignored. *)
RECURSIVE ParseInt_sum(_)
ParseInt_sum(ds) ==
  IF ds = <<>> THEN 0
  ELSE ParseInt_sum(SubSeq(ds, 1, Len(ds) - 1)) + DigitVal(ds[Len(ds)])

RECURSIVE ParseInt(_)
ParseInt(ds) ==
  IF ds = <<>> THEN 0
  ELSE ParseInt(SubSeq(ds, 1, Len(ds) - 1)) * 10 + DigitVal(ds[Len(ds)])

(* "2.36.0" as <<2, 36, 0>>. *)
parse_version(s) ==
  LET parts == Split(s, ".") IN [i \in 1..Len(parts) |-> ParseInt(parts[i])]

(* ">=2.36.0" as [op |-> <<">", "=">>, version |-> <<2, 36, 0>>]. *)
parse_specifier(s) ==
  LET k == Scan(s, 1, OpChars)
  IN [op |-> SubSeq(s, 1, k - 1),
      version |-> parse_version(SubSeq(s, k, Len(s)))]

(* A requirement string as project name, extras and specifier clauses. *)
parse_requirement(s) ==
  LET n == Scan(s, 1, NameChars)
      hasExtras == n <= Len(s) /\ s[n] = "["
      close == IF hasExtras
               THEN CHOOSE i \in n..Len(s) :
                      s[i] = "]" /\ \A j \in n..(i - 1) : s[j] # "]"
               ELSE n - 1
      rest == SubSeq(s, close + 1, Len(s))
      clauses == IF rest = <<>> THEN <<>> ELSE Split(rest, ",")
  IN [project |-> SubSeq(s, 1, n - 1),
      extras |-> IF hasExtras
                 THEN Range(Split(SubSeq(s, n + 1, close - 1), ","))
                 ELSE {},
      specs |-> {parse_specifier(clauses[i]) : i \in 1..Len(clauses)}]

(* Component i of version v, zero beyond its length. *)
Component(v, i) == IF i <= Len(v) THEN v[i] ELSE 0

(* -1, 0 or 1 as v is older than, equal to or newer than w, deciding at the
   first component from position i on in which they differ. *)
RECURSIVE compare_from(_, _, _)
compare_from(v, w, i) ==
  IF i > Len(v) /\ i > Len(w) THEN 0
  ELSE IF Component(v, i) < Component(w, i) THEN -1
  ELSE IF Component(v, i) > Component(w, i) THEN 1
  ELSE compare_from(v, w, i + 1)

compare(v, w) == compare_from(v, w, 1)

(* Version v meets one specifier clause. *)
contains(spec, v) ==
  LET c == compare(v, spec.version)
  IN CASE spec.op = <<">", "=">> -> c >= 0
       [] spec.op = <<"<", "=">> -> c <= 0
       [] spec.op = <<"=", "=">> -> c = 0
       [] spec.op = <<"!", "=">> -> c # 0
       [] spec.op = <<">">> -> c > 0
       [] spec.op = <<"<">> -> c < 0
       [] OTHER -> FALSE

(* Version v meets every clause of requirement string s. *)
satisfies(s, v) == \A spec \in parse_requirement(s).specs : contains(spec, v)

project_name(s) == parse_requirement(s).project

(* The project names a requirement list asks for. *)
names(reqs) == {project_name(reqs[i]) : i \in 1..Len(reqs)}

(***************************************************************************)
(* The run.                                                                *)
(***************************************************************************)
Resolving == {"setup_requires", "install_requires", "test_install_requires",
              "tests_require"}

Init ==
  /\ env \in Environments
  /\ cmd \in Commands
  /\ pc = "start"
  /\ metadata = NoMetadata
  /\ other = NoMetadata
  /\ binDir \in SUBSET OtherScripts
  /\ libDir \in SUBSET OtherPackages
  /\ buildDir = [scripts |-> {}, packages |-> {}]
  /\ queue = <<>>
  /\ candidate = NoCandidate
  /\ site = {}
  /\ eggs = {}

(* The setup() call: the metadata is set and setup_requires is fetched first. *)
SetupCall ==
  /\ pc = "start"
  /\ metadata' = setup(env)
  /\ queue' = metadata'.setup_requires
  /\ pc' = "setup_requires"
  /\ UNCHANGED <<env, cmd, other, binDir, libDir, buildDir, candidate, site, eggs>>

(* The same manifest evaluated by another run, in any environment. *)
SetupCallOther ==
  /\ other = NoMetadata
  /\ \E e \in Environments : other' = setup(e)
  /\ UNCHANGED <<env, cmd, pc, metadata, binDir, libDir, buildDir, queue,
                 candidate, site, eggs>>

(* The index offers a version of the project the next requirement names. *)
Offer ==
  /\ pc \in Resolving
  /\ queue # <<>>
  /\ candidate = NoCandidate
  /\ \E v \in Versions : candidate' = v
  /\ UNCHANGED <<env, cmd, pc, metadata, other, binDir, libDir, buildDir,
                 queue, site, eggs>>

(* Every accepted project is put in the site directory. *)
Accept_all_to_site ==
  /\ pc \in Resolving
  /\ queue # <<>>
  /\ candidate # NoCandidate
  /\ satisfies(Head(queue), candidate)
  /\ site' = site \cup {project_name(Head(queue))}
  /\ eggs' = eggs
  /\ queue' = Tail(queue)
  /\ candidate' = NoCandidate
  /\ UNCHANGED <<env, cmd, pc, metadata, other, binDir, libDir, buildDir>>

(* The offered version meets the requirement: the project is added to the
   site directory on the install path, to the eggs directory otherwise. *)
Accept ==
  /\ pc \in Resolving
  /\ queue # <<>>
  /\ candidate # NoCandidate
  /\ satisfies(Head(queue), candidate)
  /\ IF pc = "install_requires"
     THEN site' = site \cup {project_name(Head(queue))} /\ eggs' = eggs
     ELSE eggs' = eggs \cup {project_name(Head(queue))} /\ site' = site
  /\ queue' = Tail(queue)
  /\ candidate' = NoCandidate
  /\ UNCHANGED <<env, cmd, pc, metadata, other, binDir, libDir, buildDir>>

(* The offered version does not meet the requirement. *)
Reject ==
  /\ pc \in Resolving
  /\ queue # <<>>
  /\ candidate # NoCandidate
  /\ ~satisfies(Head(queue), candidate)
  /\ candidate' = NoCandidate
  /\ UNCHANGED <<env, cmd, pc, metadata, other, binDir, libDir, buildDir,
                 queue, site, eggs>>

(* The index has nothing (more) to offer for the requirement: the run fails. *)
NotFound ==
  /\ pc \in Resolving
  /\ queue # <<>>
  /\ candidate = NoCandidate
  /\ pc' = "failed"
  /\ UNCHANGED <<env, cmd, metadata, other, binDir, libDir, buildDir, queue,
                 candidate, site, eggs>>

(* The test command stops after install_requires. *)
Resolved_skip_tests ==
  /\ pc \in Resolving
  /\ queue = <<>>
  /\ CASE pc = "setup_requires" -> pc' = "dispatch" /\ queue' = queue
       [] pc = "install_requires" -> pc' = "done" /\ queue' = queue
       [] pc = "test_install_requires" -> pc' = "done" /\ queue' = queue
       [] pc = "tests_require" -> pc' = "done" /\ queue' = queue
  /\ UNCHANGED <<env, cmd, metadata, other, binDir, libDir, buildDir,
                 candidate, site, eggs>>

(* A requirement list is exhausted. *)
Resolved ==
  /\ pc \in Resolving
  /\ queue = <<>>
  /\ CASE pc = "setup_requires" -> pc' = "dispatch" /\ queue' = queue
       [] pc = "install_requires" -> pc' = "done" /\ queue' = queue
       [] pc = "test_install_requires" ->
            pc' = "tests_require" /\ queue' = metadata.tests_require
       [] pc = "tests_require" -> pc' = "done" /\ queue' = queue
  /\ UNCHANGED <<env, cmd, metadata, other, binDir, libDir, buildDir,
                 candidate, site, eggs>>

(* The build leaves the packages out. *)
Build_no_packages ==
  /\ pc = "dispatch"
  /\ cmd \in {"build", "install"}
  /\ buildDir' = [scripts |-> Range(metadata.scripts), packages |-> {}]
  /\ pc' = IF cmd = "build" THEN "done" ELSE "built"
  /\ UNCHANGED <<env, cmd, metadata, other, binDir, libDir, queue, candidate,
                 site, eggs>>

(* build: the declared scripts and packages are put in the build directory. *)
Build ==
  /\ pc = "dispatch"
  /\ cmd \in {"build", "install"}
  /\ buildDir' = [scripts |-> Range(metadata.scripts),
                  packages |-> Range(metadata.packages)]
  /\ pc' = IF cmd = "build" THEN "done" ELSE "built"
  /\ UNCHANGED <<env, cmd, metadata, other, binDir, libDir, queue, candidate,
                 site, eggs>>

(* The install copies the packages only. *)
Install_no_scripts ==
  /\ pc = "built"
  /\ cmd = "install"
  /\ binDir' = binDir
  /\ libDir' = libDir \cup buildDir.packages
  /\ queue' = metadata.install_requires
  /\ pc' = "install_requires"
  /\ UNCHANGED <<env, cmd, metadata, other, buildDir, candidate, site, eggs>>

(* install: what was built is copied, then install_requires is resolved. *)
Install ==
  /\ pc = "built"
  /\ cmd = "install"
  /\ binDir' = binDir \cup buildDir.scripts
  /\ libDir' = libDir \cup buildDir.packages
  /\ queue' = metadata.install_requires
  /\ pc' = "install_requires"
  /\ UNCHANGED <<env, cmd, metadata, other, buildDir, candidate, site, eggs>>

(* test: install_requires, then tests_require, are fetched as eggs. *)
Test ==
  /\ pc = "dispatch"
  /\ cmd = "test"
  /\ queue' = metadata.install_requires
  /\ pc' = "test_install_requires"
  /\ UNCHANGED <<env, cmd, metadata, other, binDir, libDir, buildDir,
                 candidate, site, eggs>>

Next ==
  \/ SetupCall
  \/ SetupCallOther
  \/ Offer
  \/ Accept
  \/ Reject
  \/ NotFound
  \/ Resolved
  \/ Build
  \/ Install
  \/ Test

Spec == Init /\ [][Next]_vars

TypeOK ==
  /\ env \in Environments
  /\ cmd \in Commands
  /\ pc \in {"start", "dispatch", "built", "done", "failed"} \cup Resolving
  /\ candidate \in Versions \cup {NoCandidate}
  /\ binDir \subseteq OtherScripts \cup Range(scripts)
  /\ libDir \subseteq OtherPackages \cup Range(packages)

(***************************************************************************)
(* Properties.                                                             *)
(***************************************************************************)
Evaluated == metadata # NoMetadata

(* The install command has copied the built files. *)
InstallCompleted == cmd = "install" /\ pc \in {"install_requires", "done"}

(* The install command has also resolved all of install_requires. *)
InstallDone == cmd = "install" /\ pc = "done"

TestDone == cmd = "test" /\ pc = "done"

AllRequirements(m) ==
  Range(m.install_requires) \cup Range(m.setup_requires) \cup Range(m.tests_require)

Boto3 == <<"b","o","t","o","3">>
Functools32 == <<"f","u","n","c","t","o","o","l","s","3","2">>
Thrift == <<"t","h","r","i","f","t">>
Boto == <<"b","o","t","o">>
BotoAtLeast == <<"b","o","t","o",">","=","2",".","3","6",".","0">>
PytestRunner == <<"p","y","t","e","s","t","-","r","u","n","n","e","r">>
Pytest == <<"p","y","t","e","s","t">>
Moto == <<"m","o","t","o">>
Wheel == <<"w","h","e","e","l">>
WheelSignatures ==
  <<"w","h","e","e","l","[","s","i","g","n","a","t","u","r","e","s","]">>
Jsonschema == <<"j","s","o","n","s","c","h","e","m","a">>

(* C1: once the install command has copied the built files, the scripts
   directory contains parquet2hive. *)
C1_ScriptInstalled == InstallCompleted => "parquet2hive" \in binDir

C1_Witness == InstallDone /\ binDir = {"parquet2hive"}

(* C2: once the install command has copied the built files, the package
   directory contains parquet2hive_modules. *)
C2_PackageInstalled == InstallCompleted => "parquet2hive_modules" \in libDir

C2_Witness == InstallDone /\ libDir = {"parquet2hive_modules"}

(* C3: the only requirement of the manifest that carries a version
   specifier is boto>=2.36.0, parsed as >= <<2, 36, 0>>; and for every
   project the manifest names, some version meets all the requirements
   declared on that project at once. *)
C3_Satisfiable ==
  Evaluated =>
    LET all == AllRequirements(metadata)
        parsed == {parse_requirement(r) : r \in all}
    IN /\ {r \in all : parse_requirement(r).specs # {}} = {BotoAtLeast}
       /\ parse_requirement(BotoAtLeast).specs =
            {[op |-> <<">", "=">>, version |-> <<2, 36, 0>>]}
       /\ \A p \in {q.project : q \in parsed} :
            LET specs == UNION {q.specs : q \in {x \in parsed : x.project = p}}
            IN \E v \in Versions : \A spec \in specs : contains(spec, v)

C3_Witness == InstallDone /\ Boto \in site

(* C4: install_requires is exactly boto3, functools32, thrift and
   boto>=2.36.0, and a finished install has resolved exactly the four
   projects boto3, functools32, thrift and boto into the site directory. *)
C4_InstallRequires ==
  /\ Evaluated =>
       /\ Len(metadata.install_requires) = 4
       /\ Range(metadata.install_requires) =
            {Boto3, Functools32, Thrift, BotoAtLeast}
  /\ InstallDone => site = {Boto3, Functools32, Thrift, Boto}

C4_Witness == InstallDone /\ Cardinality(site) = 4

(* C5: tests_require is exactly pytest, moto, wheel[signatures] and
   jsonschema, setup_requires is exactly pytest-runner, and a finished test
   command has fetched the four test projects and pytest-runner. *)
C5_TestsRequire ==
  /\ Evaluated =>
       /\ Len(metadata.tests_require) = 4
       /\ Range(metadata.tests_require) =
            {Pytest, Moto, WheelSignatures, Jsonschema}
       /\ metadata.setup_requires = <<PytestRunner>>
  /\ pc \notin {"start", "setup_requires", "failed"} => PytestRunner \in eggs
  /\ TestDone => {Pytest, Moto, Wheel, Jsonschema} \subseteq eggs

C5_Witness == TestDone /\ Jsonschema \in eggs /\ PytestRunner \in eggs

(* C6: the metadata has name parquet2hive and version 0.2.16 in every
   environment, and once set neither value changes. *)
C6_NameVersion ==
  /\ [](Evaluated => metadata.name = "parquet2hive" /\ metadata.version = "0.2.16")
  /\ [][Evaluated => /\ metadata'.name = metadata.name
                     /\ metadata'.version = metadata.version]_vars

C6_Witness == Evaluated /\ pc = "done" /\ env = [platform |-> "win32", py |-> 3]

(* C7: the manifest declares one script, parquet2hive, and one package,
   parquet2hive_modules, and no step adds any other script or package. *)
C7_OneScriptOnePackage ==
  /\ [](Evaluated => /\ metadata.scripts = <<"parquet2hive">>
                     /\ metadata.packages = <<"parquet2hive_modules">>)
  /\ [][/\ binDir' \subseteq binDir \cup {"parquet2hive"}
        /\ libDir' \subseteq libDir \cup {"parquet2hive_modules"}]_vars

C7_Witness ==
  /\ InstallDone
  /\ binDir = {"pip", "parquet2hive"}
  /\ libDir = {"pip", "parquet2hive_modules"}

(* C8: the project names of install_requires, setup_requires and
   tests_require are pairwise disjoint; the install path never puts pytest,
   moto, wheel, jsonschema or pytest-runner in the site directory, and the
   test projects are fetched by the test command only. *)
C8_Disjoint ==
  /\ Evaluated =>
       LET i == names(metadata.install_requires)
           s == names(metadata.setup_requires)
           t == names(metadata.tests_require)
       IN i \cap s = {} /\ i \cap t = {} /\ s \cap t = {}
  /\ site \cap {Pytest, Moto, Wheel, Jsonschema, PytestRunner} = {}
  /\ cmd # "test" => eggs \cap {Pytest, Moto, Wheel, Jsonschema} = {}

C8_Witness == InstallDone /\ site # {} /\ eggs = {PytestRunner}

(* C9: two runs of the manifest, from any two environments, produce the
   same metadata. *)
C9_Deterministic ==
  (Evaluated /\ other # NoMetadata) => metadata = other

C9_Witness == Evaluated /\ other # NoMetadata /\ pc = "done"

=============================================================================
